---- MODULE Spec2Model ----
(***************************************************************************)
(* The Course REST controller (CoursesController) over its Course store.   *)
(* Every handler of courses.controller.ts is one action; deleteById, which *)
(* awaits a read and then a write, is two steps so that other requests can *)
(* run between them.                                                       *)
(***************************************************************************)
EXTENDS Integers, Sequences, FiniteSets, TLC

\* ---- bounds of the model ------------------------------------------------
MaxId == 2
MaxTime == 1

\* The two callers whose deleteById requests may be in flight together.
Requests == {"d1", "d2"}

\* ---- JavaScript values --------------------------------------------------
Undefined == [kind |-> "undefined"]
Null == [kind |-> "null"]
Str(s) == [kind |-> "string", s |-> s]
Num(n) == [kind |-> "number", n |-> n]
Date(t) == [kind |-> "date", t |-> t]
\* An object a caller sends as a filter or a where clause: `f` is the record
\* of its own keys, whatever their names.
Obj(f) == [kind |-> "object", f |-> f]

\* ---- inputs the handlers are called with ---------------------------------
\* A date a client sends is Date(1); the server's clock starts at 0, so a
\* stored Date(0) was written from the server's clock.
DateInputs == {Undefined, Date(1)}

\* A request body: the Course properties a client may send (the id travels
\* in the path, updatedAt is never sent by the sampled clients).
ValidBodies ==
    [name : {Str("Go")},
     status : {Str("scheduled")},
     createdAt : DateInputs, updatedAt : {Undefined}, deletedAt : DateInputs]

GoodBody ==
    [name |-> Str("Go"), status |-> Str("scheduled"), createdAt |-> Undefined,
     updatedAt |-> Undefined, deletedAt |-> Undefined]

InvalidBodies ==
    {[GoodBody EXCEPT !.name = Null],
     [GoodBody EXCEPT !.name = Str("")],
     [GoodBody EXCEPT !.name = Undefined],
     [GoodBody EXCEPT !.status = Str("bogus")],
     [GoodBody EXCEPT !.status = Undefined]}

Bodies == ValidBodies \cup InvalidBodies

VARIABLES store, now, req, resp

vars == <<store, now, req, resp>>

\* ---- the Course model (models/course.model.ts) ---------------------------
\* A property read on an object that does not carry it yields undefined.
Field(obj, k) == IF k \in DOMAIN obj THEN obj[k] ELSE Undefined

\* name and status are declared required: the store rejects a record
\* without them.
RequiredOk(data) ==
    /\ Field(data, "name").kind = "string"
    /\ Field(data, "status").kind = "string"

\* createdAt and updatedAt default to the current time when absent.
DefaultNow(v, t) == IF v = Undefined THEN Date(t) ELSE v

\* deletedAt has no default: an absent value is stored as null.
OrNull(v) == IF v = Undefined THEN Null ELSE v

\* The row the store keeps for `data` under `id`.
Row(id, data, t) ==
    [id |-> id,
     name |-> Field(data, "name"),
     status |-> Field(data, "status"),
     createdAt |-> DefaultNow(Field(data, "createdAt"), t),
     updatedAt |-> DefaultNow(Field(data, "updatedAt"), t),
     deletedAt |-> OrNull(Field(data, "deletedAt"))]

\* ---- the store (CourseRepository) ----------------------------------------
Exists(s, id) == id \in 1 .. Len(s)

Result(code, s, body) == [code |-> code, store |-> s, body |-> body]

repoCreate(s, data, t) ==
    IF ~RequiredOk(data) THEN Result(422, s, Undefined)
    ELSE LET row == Row(Len(s) + 1, data, t)
         IN  Result(200, Append(s, row), row)

repoReplaceById(s, id, data, t) ==
    IF ~Exists(s, id) THEN Result(404, s, Undefined)
    ELSE IF ~RequiredOk(data) THEN Result(422, s, Undefined)
    ELSE Result(204, [s EXCEPT ![id] = Row(id, data, t)], Undefined)

\* Field projection: only the selected properties are loaded.
Project(row, fields) == [k \in fields |-> row[k]]

repoFindById(s, id, filter) ==
    IF ~Exists(s, id) THEN Result(404, s, Undefined)
    ELSE IF filter.kind # "object" THEN Result(200, s, s[id])
    ELSE IF "fields" \notin DOMAIN filter.f THEN Result(200, s, s[id])
    ELSE Result(200, s, Project(s[id], filter.f.fields))

\* A where clause that names no deletedAt matches every row.
Matches(row, where) ==
    IF "deletedAt" \notin DOMAIN where THEN TRUE
    ELSE IF where.deletedAt.op = "eq" THEN row.deletedAt = where.deletedAt.val
    ELSE row.deletedAt # where.deletedAt.val

\* Every order of the ids in `ids` that is ascending in createdAt (rows
\* with equal createdAt come in either order).
Ascending(s, ids) ==
    {q \in [1 .. Cardinality(ids) -> ids] :
        /\ \A i, j \in DOMAIN q : i # j => q[i] # q[j]
        /\ \A i, j \in DOMAIN q : i < j => s[q[i]].createdAt.t <= s[q[j]].createdAt.t}

Truthy(v) == v # Undefined /\ v.n # 0

\* The rows a filter skips: its skip, or else its offset.
Skipped(filter) ==
    IF Truthy(Field(filter, "skip")) THEN Field(filter, "skip").n
    ELSE IF Truthy(Field(filter, "offset")) THEN Field(filter, "offset").n
    ELSE 0

Window(q, filter) ==
    LET from == Skipped(filter) + 1
        limit == Field(filter, "limit")
        upto == IF ~Truthy(limit) THEN Len(q)
                ELSE IF from + limit.n - 1 < Len(q) THEN from + limit.n - 1 ELSE Len(q)
    IN  SubSeq(q, from, upto)

\* The result lists the store may answer a find with.
repoFind(s, filter) ==
    LET ids == {i \in 1 .. Len(s) : Matches(s[i], Field(filter, "where"))}
    IN  {[i \in DOMAIN Window(q, filter) |->
            Project(s[Window(q, filter)[i]], Field(filter, "fields"))] :
         q \in Ascending(s, ids)}

\* ---- the controller (controllers/courses.controller.ts) ------------------
\* validateStatus with every status let through.
validateStatusAny(status) == TRUE

validateStatus(status) ==
    IF status = Str("scheduled") THEN TRUE
    ELSE IF status = Str("in_production") THEN TRUE
    ELSE IF status = Str("available") THEN TRUE
    ELSE FALSE

\* isDeleted with the comparison the wrong way round.
isDeletedInverted(course) == Field(course, "deletedAt") = Null

isDeleted(course) == ~(Field(course, "deletedAt") = Null)

\* The name check without its empty-string case.
nameMissingNullOnly(course) == Field(course, "name") = Null

\* The name check of create and of replaceById.
nameMissing(course) ==
    Field(course, "name") = Null \/ Field(course, "name") = Str("")

create(s, course, t) ==
    IF nameMissing(course) THEN Result(400, s, Undefined)
    ELSE IF ~validateStatus(Field(course, "status")) THEN Result(400, s, Undefined)
    ELSE repoCreate(s, course, t)

\* What spreading a value adds. An object adds its own keys. A string adds
\* one key per character, named by the character's index from 0. Undefined,
\* null, a number and a Date add none.
Own(obj) ==
    IF obj.kind = "object" THEN obj.f
    ELSE IF obj.kind = "string"
         THEN LET at == [i \in 1 .. Len(obj.s) |-> ToString(i - 1)]
              IN  [k \in {at[i] : i \in DOMAIN at} |->
                      LET i == CHOOSE j \in DOMAIN at : at[j] = k
                      IN  Str(SubSeq(obj.s, i, i))]
    ELSE <<>>

\* {...a, ...b}: every key of a and of b, b's value where both have the key.
Spread(a, b) ==
    [k \in DOMAIN a \cup DOMAIN b |-> IF k \in DOMAIN b THEN b[k] ELSE a[k]]

\* The filter find hands to the store: every key of the caller's filter,
\* then every key of the caller's where clause, then the handler's own
\* where, order and fields (a later key replaces an earlier one).
findFilter(filter) ==
    Spread(Spread(Own(filter), Own(Field(Own(filter), "where"))),
           [where |-> [deletedAt |-> [op |-> "eq", val |-> Null]],
            order |-> "createdAt ASC",
            fields |-> {"id", "name"}])

find(s, filter) == repoFind(s, findFilter(filter))

findById(s, id, filter) ==
    LET r == repoFindById(s, id, filter)
    IN  IF r.code # 200 THEN r
        ELSE IF isDeleted(r.body) THEN Result(410, s, Undefined)
        ELSE r

\* replaceById refusing a record that is already soft-deleted.
replaceByIdGuarded(s, id, body, t) ==
    LET course == [k \in DOMAIN body \cup {"updatedAt"} |->
                      IF k = "updatedAt" THEN Date(t) ELSE body[k]]
    IN  IF nameMissing(course) THEN Result(400, s, Undefined)
        ELSE IF ~validateStatus(Field(course, "status")) THEN Result(400, s, Undefined)
        ELSE IF Exists(s, id) /\ s[id].deletedAt # Null THEN Result(410, s, Undefined)
        ELSE repoReplaceById(s, id, course, t)

replaceById(s, id, body, t) ==
    LET course == [k \in DOMAIN body \cup {"updatedAt"} |->
                      IF k = "updatedAt" THEN Date(t) ELSE body[k]]
    IN  IF nameMissing(course) THEN Result(400, s, Undefined)
        ELSE IF ~validateStatus(Field(course, "status")) THEN Result(400, s, Undefined)
        ELSE repoReplaceById(s, id, course, t)

\* deleteById up to its write: findById without a filter, then the checks
\* on what it answered.
deleteFetch(s, id) ==
    LET f == findById(s, id, Undefined)
    IN  IF f.code # 200 THEN f
        ELSE IF f.body = Null \/ f.body = Undefined THEN Result(404, s, Undefined)
        ELSE IF isDeleted(f.body) THEN Result(410, s, Undefined)
        ELSE f

\* The replacement built from name, status and deletedAt alone.
deletedFromScratch(course, t) ==
    [name |-> course.name, status |-> course.status, deletedAt |-> Date(t)]

\* The replacement deleteById builds from the `course` it fetched: the same
\* record with deletedAt set.
deleted(course, t) ==
    [k \in DOMAIN course \cup {"deletedAt"} |->
        IF k = "deletedAt" THEN Date(t) ELSE course[k]]

\* deleteById reads the clock for deletedAt (t), then replaceById reads it
\* again for updatedAt (u).
deleteWrite(s, id, course, t, u) == replaceById(s, id, deleted(course, t), u)

\* ---- inputs --------------------------------------------------------------
Ids == 1 .. MaxId

\* A caller's filter carries only the keys the caller sent.
FindFilters ==
    {Undefined,
     Null,
     Obj([where |-> Null]),
     Obj([limit |-> Num(1)]),
     Obj([skip |-> Num(1)]),
     Obj([offset |-> Num(1)]),
     Obj([where |-> Obj([deletedAt |-> [op |-> "neq", val |-> Null]])]),
     Obj([where |-> Obj([limit |-> Num(1)])]),
     Obj([where |-> Obj([skip |-> Num(1)])]),
     Obj([where |-> Obj([offset |-> Num(1)])]),
     Obj([skip |-> Num(0), where |-> Obj([skip |-> Num(1)])]),
     Obj([where |-> Num(1)]),
     Obj([where |-> Str("Go")]),
     Obj([kind |-> Str("x")]),
     Obj([where |-> Obj([kind |-> Str("x")])]),
     Obj([order |-> "createdAt DESC"]),
     Obj([fields |-> {"status"}]),
     Obj([include |-> "lessons"])}

FindByIdFilters == {Undefined, Obj([fields |-> {"id", "name"}])}

\* ---- state ---------------------------------------------------------------
Idle == Undefined

\* The last answer given: the handler, the id it was about, the HTTP status
\* and the body; `over` is the deletedAt a deleteById wrote over.
Response(op, id, code, body, over) ==
    [op |-> op, id |-> id, code |-> code, body |-> body, over |-> over]

Init ==
    /\ store = <<>>
    /\ now = 0
    /\ req = [r \in Requests |-> Idle]
    /\ resp = Response("none", 0, 0, Undefined, Undefined)

\* The clock advances between any two steps, or not at all.
Tick ==
    /\ now < MaxTime
    /\ now' = now + 1
    /\ UNCHANGED <<store, req, resp>>

Create(body) ==
    LET r == create(store, body, now)
    IN  /\ Len(r.store) <= MaxId
        /\ store' = r.store
        /\ resp' = Response("create", Len(r.store), r.code, r.body, Undefined)
        /\ UNCHANGED <<now, req>>

Find(filter) ==
    \E list \in find(store, filter) :
        /\ resp' = Response("find", 0, 200, list, Undefined)
        /\ UNCHANGED <<store, now, req>>

FindById(id, filter) ==
    LET r == findById(store, id, filter)
    IN  /\ resp' = Response("findById", id, r.code, r.body, Undefined)
        /\ UNCHANGED <<store, now, req>>

ReplaceById(id, body) ==
    LET r == replaceById(store, id, body, now)
    IN  /\ store' = r.store
        /\ resp' = Response("replaceById", id, r.code, Undefined, Undefined)
        /\ UNCHANGED <<now, req>>

\* deleteById up to its await of findById.
DeleteRead(r, id) ==
    /\ req[r] = Idle
    /\ LET f == deleteFetch(store, id)
       IN  IF f.code # 200
           THEN /\ resp' = Response("deleteById", id, f.code, Undefined, Undefined)
                /\ UNCHANGED req
           ELSE /\ req' = [req EXCEPT ![r] = [id |-> id, course |-> f.body]]
                /\ UNCHANGED resp
    /\ UNCHANGED <<store, now>>

\* deleteById from there to its end; the clock may advance between its two
\* reads.
DeleteWrite(r) ==
    /\ req[r] # Idle
    /\ \E u \in now .. MaxTime :
          LET w == deleteWrite(store, req[r].id, req[r].course, now, u)
          IN  /\ store' = w.store
              /\ resp' = Response("deleteById", req[r].id, w.code, Undefined,
                                  store[req[r].id].deletedAt)
              /\ now' = u
    /\ req' = [req EXCEPT ![r] = Idle]

Next ==
    \/ Tick
    \/ \E body \in Bodies : Create(body)
    \/ \E filter \in FindFilters : Find(filter)
    \/ \E id \in Ids, filter \in FindByIdFilters : FindById(id, filter)
    \/ \E id \in Ids, body \in Bodies : ReplaceById(id, body)
    \/ \E r \in Requests, id \in Ids : DeleteRead(r, id)
    \/ \E r \in Requests : DeleteWrite(r)

Spec == Init /\ [][Next]_vars

\* ---- what the claims speak about ------------------------------------------
Active(s, id) == Exists(s, id) /\ s[id].deletedAt = Null

SoftDeleted(s, id) == Exists(s, id) /\ s[id].deletedAt # Null

ActiveIds(s) == {id \in 1 .. Len(s) : s[id].deletedAt = Null}

ListedIds(list) == {list[i].id : i \in DOMAIN list}

NoRepeats(list) == \A i, j \in DOMAIN list : i # j => list[i].id # list[j].id

OldestFirst(s, list) ==
    \A i, j \in DOMAIN list :
        i < j => s[list[i].id].createdAt.t <= s[list[j].id].createdAt.t

ValidStatuses == {Str("scheduled"), Str("in_production"), Str("available")}

InvalidInput(body) ==
    \/ body.name = Null
    \/ body.name = Str("")
    \/ body.status \notin ValidStatuses

\* ---- C1 -------------------------------------------------------------------
\* C1: no replaceById call, whatever its input, changes any field of a stored
\* record whose deletedAt is non-null.
DeletedRecordImmutable ==
    [][\A id \in Ids, body \in Bodies :
          (ReplaceById(id, body) /\ SoftDeleted(store, id)) => store'[id] = store[id]]_vars

\* ---- C2 -------------------------------------------------------------------
\* C2: for every caller-supplied filter, find answers with exactly the active
\* records (deletedAt null): every active record is listed, no soft-deleted
\* one is, and the list is in ascending createdAt order.
ListExactlyActive ==
    [][\A filter \in FindFilters :
          (resp'.op = "find" /\ Find(filter)) =>
              /\ ListedIds(resp'.body) = ActiveIds(store)
              /\ NoRepeats(resp'.body)
              /\ OldestFirst(store, resp'.body)]_vars

\* ---- C3 -------------------------------------------------------------------
\* C3: findById answers NotFound for an id never created, Gone without a
\* body for a soft-deleted record, and the full stored record for an active
\* one; an active record is never answered with Gone.
GetByIdThreeOutcomes ==
    [][\A id \in Ids, filter \in FindByIdFilters :
          FindById(id, filter) =>
              /\ ~Exists(store, id) => resp'.code = 404
              /\ SoftDeleted(store, id) => resp'.code = 410 /\ resp'.body = Undefined
              /\ Active(store, id) => resp'.code = 200 /\ resp'.body = store[id]]_vars

\* ---- C4 -------------------------------------------------------------------
\* C4: deleteById on an active record, with nothing written in between its
\* read and its write, answers 204 and leaves deletedAt non-null; deleteById
\* on a soft-deleted record answers Gone and writes nothing; deleteById on an
\* id never created answers NotFound.
DoubleDeleteGone ==
    [][/\ \A r \in Requests, id \in Ids :
             DeleteRead(r, id) =>
                 /\ ~Exists(store, id) =>
                        resp'.op = "deleteById" /\ resp'.code = 404 /\ req' = req
                 /\ SoftDeleted(store, id) =>
                        resp'.op = "deleteById" /\ resp'.code = 410 /\ req' = req
                 /\ Active(store, id) =>
                        req' = [req EXCEPT ![r] = [id |-> id, course |-> store[id]]]
                 /\ store' = store
       /\ \A r \in Requests :
             (DeleteWrite(r) /\ store[req[r].id] = req[r].course) =>
                 /\ resp'.code = 204
                 /\ store'[req[r].id].deletedAt # Null]_vars

\* A deleteById has been answered Gone for a record that an earlier
\* deleteById soft-deleted (Date(0) is the server's clock, no client's date).
SecondDeleteGone ==
    /\ resp.op = "deleteById"
    /\ resp.code = 410
    /\ store[resp.id].deletedAt = Date(0)
    /\ store[resp.id].updatedAt = Date(0)

\* ---- C5 -------------------------------------------------------------------
\* C5: with a name that is null or empty, or a status that is not one of the
\* three, create and replaceById answer 400 and leave the store unchanged.
InvalidInputRejected ==
    [][\A body \in Bodies :
          InvalidInput(body) =>
              /\ (resp'.op = "create" /\ Create(body)) =>
                     resp'.code = 400 /\ store' = store
              /\ \A id \in Ids :
                    (resp'.op = "replaceById" /\ ReplaceById(id, body)) =>
                        resp'.code = 400 /\ store' = store]_vars

\* replaceById has answered 400 for a stored record.
ReplaceRejected ==
    /\ resp.op = "replaceById"
    /\ resp.code = 400
    /\ Exists(store, resp.id)

\* ---- C6 -------------------------------------------------------------------
\* C6: every stored record has a name that is a non-empty string and one of
\* the three statuses.
StoredRecordsValid ==
    \A id \in 1 .. Len(store) :
        /\ store[id].name.kind = "string"
        /\ store[id].name # Str("")
        /\ store[id].status \in ValidStatuses

\* The store is full, one record replaced and one soft-deleted.
StoreWritten ==
    /\ Len(store) = MaxId
    /\ resp.op = "replaceById"
    /\ resp.code = 204
    /\ \E id \in 1 .. Len(store) : store[id].deletedAt = Date(0)

\* ---- C7 -------------------------------------------------------------------
\* C7: a step that takes a stored record's deletedAt from null to non-null
\* is a deleteById step, and no step takes it from non-null back to null.
DeleteOneWay ==
    [][\A id \in 1 .. Len(store) :
          /\ (Active(store, id) /\ SoftDeleted(store', id)) =>
                 \E r \in Requests : DeleteWrite(r) /\ req[r].id = id
          /\ SoftDeleted(store, id) => SoftDeleted(store', id)]_vars

\* ---- C8 -------------------------------------------------------------------
\* C8: the record stored under an id keeps that id and its createdAt in
\* every step.
IdAndCreatedAtKept ==
    [][\A id \in 1 .. Len(store) :
          /\ store'[id].id = id
          /\ store'[id].createdAt = store[id].createdAt]_vars

\* ---- C9 -------------------------------------------------------------------
\* C9 as stated: a successful deleteById writes the record it fetched with
\* deletedAt set to the current time and every other field as fetched.
DeleteChangesOnlyDeletedAt ==
    [][\A r \in Requests :
          (DeleteWrite(r) /\ resp'.code = 204) =>
              store'[req[r].id] = [req[r].course EXCEPT !.deletedAt = Date(now)]]_vars

\* C9 as amended: a successful deleteById writes the record it fetched with
\* deletedAt set to the current time and updatedAt refreshed to the current
\* time (read again, so never earlier than deletedAt); id, name, status and
\* createdAt are as fetched.
DeleteKeepsFetched ==
    [][\A r \in Requests :
          (DeleteWrite(r) /\ resp'.code = 204) =>
              /\ now' >= now
              /\ store'[req[r].id] = [req[r].course EXCEPT !.deletedAt = Date(now),
                                                           !.updatedAt = Date(now')]]_vars

\* A deleteById has succeeded on a record created at an earlier time.
DeletedLater ==
    /\ resp.op = "deleteById"
    /\ resp.code = 204
    /\ store[resp.id].createdAt = Date(0)
    /\ store[resp.id].deletedAt = Date(1)
    /\ store[resp.id].updatedAt = Date(1)

\* ---- C10 ------------------------------------------------------------------
\* C10: a deleteById that passed its check and finds, at its write, the
\* record already soft-deleted still answers 204 and writes the soft-delete
\* again with the current time; the record ends soft-deleted.
RacingDeleteReapplies ==
    [][\A r \in Requests :
          (DeleteWrite(r) /\ SoftDeleted(store, req[r].id)) =>
              /\ req[r].course.deletedAt = Null
              /\ resp'.code = 204
              /\ store'[req[r].id].deletedAt = Date(now)]_vars

\* Two deleteById calls on one id both passed the check before either wrote:
\* the second has answered 204 writing over the first one's deletedAt with a
\* later time.
BothDeletesSucceeded ==
    /\ resp.op = "deleteById"
    /\ resp.code = 204
    /\ resp.over = Date(0)
    /\ store[resp.id].deletedAt = Date(1)

====
